---- MODULE Spec2Model ----
(***************************************************************************)
(* Model of the biomedical study classifier: the paper-type resolver       *)
(* (review_filter.py), the MeSH evidence classifiers                       *)
(* (animal_classifier.py) and the row-by-row pipeline (utils.py).          *)
(*                                                                         *)
(* Python values are modelled as follows:                                  *)
(*   - None is NONE where a string is expected and Absent where a dict is *)
(*     expected; a JSON null inside a response is NULL;                    *)
(*   - a dict is a TLA+ function over its keys, d.get(k, dflt) is Get;     *)
(*   - a list is a sequence;                                               *)
(*   - a formatted label f"{name} ({ui})" is the pair <<name, ui>>;        *)
(*   - a title is the sequence of its words and ':' marks, so that \b and  *)
(*     \s of the review patterns are the boundaries between tokens.        *)
(***************************************************************************)
EXTENDS Integers, Sequences, FiniteSets, TLC

VARIABLES
    entry,              \* which entry point of the program the caller uses
    \* ---- classifier calls (AnimalClassifier methods called directly) ----
    animal_classifier,  \* the AnimalClassifier object: configuration and stats
    mesh_terms,         \* the term list handed to the classifiers
    animals_result,     \* last return value of _classify_animals_used, or Absent
    in_vivo_args,       \* (animals_used, animals_confidence) of the last _classify_in_vivo call
    in_vivo_result,     \* last return value of _classify_in_vivo, or Absent
    species_result,     \* last return value of _extract_species, or Absent
    \* ---- repeated classification (classify_animal_studies over several papers) ----
    first_run,          \* what the first classification of mesh_terms returned, or Absent
    last_run,           \* what the latest classification of mesh_terms returned, or Absent
    \* ---- paper-type resolver (ReviewFilter.classify_paper_type) ----
    openalex_data,      \* what make_api_request returned for the OpenAlex call
    crossref_data,      \* what make_api_request returned for the Crossref call (Absent if not called)
    resolved,           \* return value of classify_paper_type, or Absent
    \* ---- pipeline (process_all_dois_row_by_row) ----
    dois,               \* the input DOI sequence
    pos,                \* index into unique_dois of the next DOI to process
    included_results,
    excluded_results,
    requests,           \* the remote calls issued for the DOI processed last
    answers,            \* what each remote endpoint answered for the DOI processed last
    calls,              \* the methods called for the DOI processed last, in order
    \* ---- one remote call (make_api_request on a session of create_http_session) ----
    call_pc,            \* "idle", "running" or "returned"
    frames,             \* how many calls of make_api_request are on the stack
    attempts,           \* requests the adapter has sent within the current session.get
    responses,          \* the status of every answer of the server, oldest first
    call_result,        \* the return value of make_api_request (Absent for None)
    \* ---- one evaluation of a classifier, statement group by statement group ----
    eval_pc,            \* "idle", "start", "assigned" or "done"
    eval_verdict,       \* the verdict variables of the evaluation, or Absent
    \* ---- the requests on the NCBI session of one AnimalClassifier, in time ----
    pace_pc,            \* the request classify_animal_studies issues next, or "idle"
    now,                \* time.time(), in ticks
    last_request,       \* session._last_request
    sent_at             \* the time at which each request on the session was sent

vars == <<entry, animal_classifier, mesh_terms, animals_result, in_vivo_args, in_vivo_result,
          species_result, first_run, last_run, openalex_data, crossref_data, resolved,
          dois, pos, included_results, excluded_results, requests, answers, calls,
          call_pc, frames, attempts, responses, call_result, eval_pc, eval_verdict,
          pace_pc, now, last_request, sent_at>>

classify_vars == <<mesh_terms, animals_result, in_vivo_args, in_vivo_result, species_result>>
rerun_vars == <<first_run, last_run>>
resolver_vars == <<openalex_data, crossref_data, resolved>>
pipeline_vars == <<dois, pos, included_results, excluded_results, requests, answers, calls>>
request_vars == <<call_pc, frames, attempts, responses, call_result>>
eval_vars == <<eval_pc, eval_verdict>>
pace_vars == <<pace_pc, now, last_request, sent_at>>

NONE == "None"
NULL == "null"
Absent == [absent |-> TRUE]

-----------------------------------------------------------------------------
(* Bounds *)
MaxTerms == 3
MaxRerunTerms == 2
MaxRuns == 3
MaxDois == 3
MaxRequests == 6
MaxTime == 6
MaxSent == 4

-----------------------------------------------------------------------------
(* Python helpers *)

Get(d, k, dflt) == IF k \in DOMAIN d THEN d[k] ELSE dflt

Label(name, ui) == <<name, ui>>

RECURSIVE Labels(_, _)
Labels(terms, table) ==
    IF terms = <<>> THEN <<>>
    ELSE LET t == Head(terms)
             rest == Labels(Tail(terms), table)
         IN IF t.ui \in table THEN <<Label(t.name, t.ui)>> \o rest ELSE rest

-----------------------------------------------------------------------------
(* animal_classifier.py: the fixed code -> label tables *)

animal_mesh_uis ==
    ("D000818" :> "Animals") @@ ("D023421" :> "Models, Animal") @@
    ("D004195" :> "Disease Models, Animal") @@ ("D032761" :> "Animal Experimentation")

human_mesh_ui == "D006801"

\* the in_vitro_uis table local to _classify_animals_used
in_vitro_uis ==
    ("D066298" :> "In Vitro Techniques") @@ ("D002478" :> "Cells, Cultured") @@
    ("D018929" :> "Cell Culture Techniques")

\* the in_vitro_uis table local to _classify_in_vivo
in_vivo_in_vitro_uis ==
    ("D066298" :> "In Vitro Techniques") @@ ("D002478" :> "Cells, Cultured") @@
    ("D018929" :> "Cell Culture Techniques") @@ ("D046508" :> "Cell Culture") @@
    ("D019149" :> "Bioreactors")

in_vivo_supporting_uis ==
    ("D032761" :> "Animal Experimentation") @@ ("D023421" :> "Models, Animal") @@
    ("D004195" :> "Disease Models, Animal") @@ ("D001522" :> "Behavioral Phenomena")

species_mapping ==
    ("D051379" :> "Mice") @@ ("D051381" :> "Rats") @@ ("D011817" :> "Rabbits")

Verdict(value, confidence, evidence) ==
    [value |-> value, confidence |-> confidence, evidence |-> evidence]

-----------------------------------------------------------------------------
(* AnimalClassifier.__init__ *)

ZeroStats ==
    [processed |-> 0, animals_found |-> 0, in_vivo_found |-> 0, species_found |-> 0,
     api_errors |-> 0, pmid_not_found |-> 0, mesh_not_found |-> 0]

AnimalClassifier(include_animals, include_humans) ==
    [include_animals |-> include_animals, include_humans |-> include_humans,
     species_cache |-> NONE, stats |-> ZeroStats]

-----------------------------------------------------------------------------
(* AnimalClassifier._classify_animals_used (Question 2) *)

\* A variant of _classify_animals_used whose downgrade fires for "high" only.
ClassifyAnimalsUsedHighOnly(self, terms) ==
    LET found_animal_terms == Labels(terms, DOMAIN animal_mesh_uis)
        found_human_terms == Labels(terms, {human_mesh_ui})
        found_in_vitro_terms == Labels(terms, DOMAIN in_vitro_uis)
        first ==
            IF self.include_animals /\ found_animal_terms # <<>>
            THEN Verdict(TRUE,
                         IF Len(found_animal_terms) > 1 THEN "high" ELSE "medium",
                         found_animal_terms)
            ELSE IF self.include_humans /\ found_human_terms # <<>>
                    /\ found_animal_terms = <<>>
            THEN Verdict(TRUE, "medium", found_human_terms)
            ELSE Verdict(FALSE, "low", <<>>)
    IN IF found_in_vitro_terms # <<>> /\ first.confidence = "high"
       THEN [first EXCEPT !.confidence = "low"]
       ELSE first

\* A variant of _classify_animals_used that counts the animal papers seen so
\* far (the running counter of the object) into the number of indicators.
ClassifyAnimalsUsedFromStats(self, terms) ==
    LET found_animal_terms == Labels(terms, DOMAIN animal_mesh_uis)
        found_human_terms == Labels(terms, {human_mesh_ui})
        found_in_vitro_terms == Labels(terms, DOMAIN in_vitro_uis)
        first ==
            IF self.include_animals /\ found_animal_terms # <<>>
            THEN Verdict(TRUE,
                         IF Len(found_animal_terms) + self.stats.animals_found > 1
                         THEN "high" ELSE "medium",
                         found_animal_terms)
            ELSE IF self.include_humans /\ found_human_terms # <<>>
                    /\ found_animal_terms = <<>>
            THEN Verdict(TRUE, "medium", found_human_terms)
            ELSE Verdict(FALSE, "low", <<>>)
    IN IF found_in_vitro_terms # <<>> /\ first.confidence \in {"high", "medium"}
       THEN [first EXCEPT !.confidence = "low"]
       ELSE first

\* the loop over the terms and the classification logic: the defaults and
\* the if / elif that sets the verdict
AnimalsUsedVerdict(self, terms) ==
    LET animal_keys == DOMAIN animal_mesh_uis
        \* the if / elif / elif chain of the loop
        found_animal_terms == Labels(terms, animal_keys)
        found_human_terms == Labels(terms, {human_mesh_ui} \ animal_keys)
    IN IF self.include_animals /\ found_animal_terms # <<>>
       THEN Verdict(TRUE,
                    IF Len(found_animal_terms) > 1 THEN "high" ELSE "medium",
                    found_animal_terms)
       ELSE IF self.include_humans /\ found_human_terms # <<>>
               /\ found_animal_terms = <<>>
       THEN Verdict(TRUE, "medium", found_human_terms)
       ELSE Verdict(FALSE, "low", <<>>)

\* A variant of the last statement of _classify_animals_used that sets the
\* confidence to "high" where the code sets it to "low".
RaiseConfidence(verdict, terms) ==
    LET found_in_vitro_terms ==
            Labels(terms, (DOMAIN in_vitro_uis \ DOMAIN animal_mesh_uis) \ {human_mesh_ui})
    IN IF found_in_vitro_terms # <<>> /\ verdict.confidence \in {"high", "medium"}
       THEN [verdict EXCEPT !.confidence = "high"]
       ELSE verdict

\* "Reduce confidence if strong in vitro indicators present"
ReduceConfidence(verdict, terms) ==
    LET found_in_vitro_terms ==
            Labels(terms, (DOMAIN in_vitro_uis \ DOMAIN animal_mesh_uis) \ {human_mesh_ui})
    IN IF found_in_vitro_terms # <<>> /\ verdict.confidence \in {"high", "medium"}
       THEN [verdict EXCEPT !.confidence = "low"]
       ELSE verdict

ClassifyAnimalsUsed(self, terms) ==
    ReduceConfidence(AnimalsUsedVerdict(self, terms), terms)

-----------------------------------------------------------------------------
(* AnimalClassifier._classify_in_vivo (Question 3) *)

\* A variant of _classify_in_vivo without the early return for "no animals".
ClassifyInVivoNoShortCircuit(self, terms, animals_used, animals_confidence) ==
    LET found_in_vitro_terms == Labels(terms, DOMAIN in_vivo_in_vitro_uis)
        found_in_vivo_terms == Labels(terms, DOMAIN in_vivo_supporting_uis)
    IN IF found_in_vitro_terms # <<>> /\ found_in_vivo_terms = <<>>
       THEN Verdict(FALSE, "medium", found_in_vitro_terms)
       ELSE IF found_in_vivo_terms # <<>>
       THEN Verdict(TRUE, "high", found_in_vivo_terms)
       ELSE Verdict(TRUE,
                    IF animals_confidence = "low" THEN "low" ELSE "medium",
                    <<"Assumption: animals present without strong in vitro indicators">>)

ClassifyInVivo(self, terms, animals_used, animals_confidence) ==
    IF ~animals_used
    THEN Verdict(FALSE, "NOT FOUND", <<"No animals/subjects detected">>)
    ELSE LET vitro_keys == DOMAIN in_vivo_in_vitro_uis
             found_in_vitro_terms == Labels(terms, vitro_keys)
             found_in_vivo_terms ==
                 Labels(terms, DOMAIN in_vivo_supporting_uis \ vitro_keys)
         IN IF found_in_vitro_terms # <<>> /\ found_in_vivo_terms = <<>>
            THEN Verdict(FALSE, "medium", found_in_vitro_terms)
            ELSE IF found_in_vivo_terms # <<>>
            THEN Verdict(TRUE, "high", found_in_vivo_terms)
            ELSE Verdict(TRUE,
                         IF animals_confidence = "low" THEN "low" ELSE "medium",
                         <<"Assumption: animals present without strong in vitro indicators">>)

-----------------------------------------------------------------------------
(* AnimalClassifier._extract_species (Question 5) *)

Contains(seq, x) == \E i \in 1..Len(seq) : seq[i] = x

\* the loop body, folded over the terms from the left; acc is
\* (found_species, evidence_terms)
RECURSIVE SpeciesLoop(_, _)
SpeciesLoop(terms, acc) ==
    IF terms = <<>> THEN acc
    ELSE LET ui == Head(terms).ui
             species_name == species_mapping[ui]
         IN IF ui \in DOMAIN species_mapping /\ ~Contains(acc.species, species_name)
            THEN SpeciesLoop(Tail(terms),
                             [species |-> Append(acc.species, species_name),
                              evidence |-> Append(acc.evidence, Label(species_name, ui))])
            ELSE SpeciesLoop(Tail(terms), acc)

\* A variant of _extract_species that appends a name at every matching term.
RECURSIVE SpeciesLoopNoDedupe(_, _)
SpeciesLoopNoDedupe(terms, acc) ==
    IF terms = <<>> THEN acc
    ELSE LET ui == Head(terms).ui
         IN IF ui \in DOMAIN species_mapping
            THEN SpeciesLoopNoDedupe(Tail(terms),
                     [species |-> Append(acc.species, species_mapping[ui]),
                      evidence |-> Append(acc.evidence, Label(species_mapping[ui], ui))])
            ELSE SpeciesLoopNoDedupe(Tail(terms), acc)

ExtractSpeciesNoDedupe(self, terms) ==
    SpeciesLoopNoDedupe(terms, [species |-> <<>>, evidence |-> <<>>])

ExtractSpecies(self, terms) ==
    SpeciesLoop(terms, [species |-> <<>>, evidence |-> <<>>])

-----------------------------------------------------------------------------
(* AnimalClassifier.classify_animal_studies, steps 3 to 5 and the counters *)

ClassifyTerms(self, terms) ==
    LET animals == ClassifyAnimalsUsed(self, terms)
        in_vivo == ClassifyInVivo(self, terms, animals.value, animals.confidence)
        species == ExtractSpecies(self, terms)
    IN [animals |-> animals, in_vivo |-> in_vivo, species |-> species]

\* A variant of the counter update that leaves "processed" as it is.
UpdateStatsWithoutProcessed(stats, classified) ==
    [stats EXCEPT
        !.animals_found = IF classified.animals.value THEN @ + 1 ELSE @,
        !.in_vivo_found = IF classified.in_vivo.value THEN @ + 1 ELSE @,
        !.species_found = IF classified.species.species # <<>> THEN @ + 1 ELSE @]

UpdateStats(stats, classified) ==
    [stats EXCEPT
        !.processed = @ + 1,
        !.animals_found = IF classified.animals.value THEN @ + 1 ELSE @,
        !.in_vivo_found = IF classified.in_vivo.value THEN @ + 1 ELSE @,
        !.species_found = IF classified.species.species # <<>> THEN @ + 1 ELSE @]

-----------------------------------------------------------------------------
(* review_filter.py: ReviewFilter.__init__ *)

EXCLUDED_TYPES ==
    {"editorial", "erratum", "retraction", "paratext", "commentary", "letter"}

EXCLUDED_CROSSREF_TYPES ==
    {"book-chapter", "proceedings-article", "reference-entry", "component"}

EXCLUDED_TYPES_COMPLETE ==
    EXCLUDED_TYPES \cup EXCLUDED_CROSSREF_TYPES \cup {"openalex_review", "crossref_review"}

\* The alternatives of review_regex, each as the words it matches in a row.
REVIEW_TITLE_PATTERNS ==
    << <<"systematic", "review">>,
       <<"meta-analysis">>,
       <<"metaanalysis">>,
       <<"literature", "review">>,
       <<"review", "of", "the">>,
       <<"scoping", "review">>,
       <<"narrative", "review">>,
       <<"critical", "review">>,
       <<"comprehensive", "review">>,
       <<":", "a", "review">>,
       <<"review", ":">> >>

\* str.lower() on the words and type strings that occur in the model
LowerTable ==
    ("A" :> "a") @@ ("Systematic" :> "systematic") @@ ("Review" :> "review") @@
    ("Meta-Analysis" :> "meta-analysis") @@ ("Overview" :> "overview") @@
    ("Editorial" :> "editorial") @@ ("Letter" :> "letter") @@
    ("Book-Chapter" :> "book-chapter")

Lower(w) == IF w \in DOMAIN LowerTable THEN LowerTable[w] ELSE w

\* pattern matched at position i of the words (re.IGNORECASE)
MatchesAt(words, i, pattern) ==
    /\ i + Len(pattern) - 1 <= Len(words)
    /\ \A k \in 1..Len(pattern) : Lower(words[i + k - 1]) = pattern[k]

\* review_regex.search(title)
ReviewRegexSearch(title) ==
    \E p \in 1..Len(REVIEW_TITLE_PATTERNS), i \in 1..Len(title) :
        MatchesAt(title, i, REVIEW_TITLE_PATTERNS[p])

\* " ".join(titles)
RECURSIVE Join(_)
Join(titles) == IF titles = <<>> THEN <<>> ELSE Head(titles) \o Join(Tail(titles))

-----------------------------------------------------------------------------
(* ReviewFilter._classify_openalex and ReviewFilter._classify_crossref *)

\* .get("type", "").lower() raises AttributeError on a JSON null
OpenalexRaises(work_data) ==
    Get(work_data, "type", "") = NULL \/ Get(work_data, "type_crossref", "") = NULL

ClassifyOpenalex(work_data) ==
    LET title == Get(work_data, "title", <<>>)
        work_type == Lower(Get(work_data, "type", ""))
        crossref_type == Lower(Get(work_data, "type_crossref", ""))
    IN IF work_type \in EXCLUDED_TYPES THEN work_type
       ELSE IF crossref_type \in EXCLUDED_CROSSREF_TYPES THEN crossref_type
       ELSE IF title # <<>> /\ ReviewRegexSearch(title) THEN "openalex_review"
       ELSE IF work_type # "" THEN work_type ELSE "NOT FOUND"

\* A variant of _classify_crossref without the title rule.
ClassifyCrossrefNoTitleRule(work_data) ==
    LET work_type == Lower(Get(work_data, "type", ""))
    IN IF work_type \in EXCLUDED_CROSSREF_TYPES \/ work_type \in EXCLUDED_TYPES
       THEN work_type
       ELSE IF work_type # "" THEN work_type ELSE "Not found"

CrossrefRaises(work_data) == Get(work_data, "type", "") = NULL

ClassifyCrossref(work_data) ==
    LET work_type == Lower(Get(work_data, "type", ""))
        titles == Get(work_data, "title", <<>>)
    IN IF work_type \in EXCLUDED_CROSSREF_TYPES \/ work_type \in EXCLUDED_TYPES
       THEN work_type
       ELSE IF \E k \in 1..Len(titles) : ReviewRegexSearch(titles[k])
       THEN "crossref_review"
       ELSE IF work_type # "" THEN work_type ELSE "Not found"

-----------------------------------------------------------------------------
(* ReviewFilter._check_openalex, _check_crossref and classify_paper_type.   *)
(* data is what make_api_request returned: Absent for None.                 *)

PaperType(paper_type, source, title) ==
    [paper_type |-> paper_type, source |-> source, title |-> title]

\* A variant of _check_openalex without its own handler: what its body raises
\* reaches the handler of classify_paper_type, which answers "error".
CheckOpenalexNoHandler(data) ==
    IF data = Absent THEN PaperType("NOT FOUND", "none", <<>>)
    ELSE IF OpenalexRaises(data) THEN PaperType("NOT FOUND", "error", <<>>)
    ELSE PaperType(ClassifyOpenalex(data), "openalex", Get(data, "title", <<>>))

CheckOpenalex(data) ==
    IF data = Absent THEN PaperType("NOT FOUND", "none", <<>>)
    ELSE IF OpenalexRaises(data) THEN PaperType("NOT FOUND", "none", <<>>)
    ELSE PaperType(ClassifyOpenalex(data), "openalex", Get(data, "title", <<>>))

CheckCrossref(data) ==
    IF data = Absent \/ "message" \notin DOMAIN data
    THEN PaperType("NOT FOUND", "none", <<>>)
    ELSE LET work_data == data["message"]
         IN IF CrossrefRaises(work_data) THEN PaperType("NOT FOUND", "none", <<>>)
            ELSE PaperType(ClassifyCrossref(work_data), "crossref",
                           Join(Get(work_data, "title", <<>>)))

\* whether classify_paper_type goes on to the fallback source
QueriesCrossref(openalex) == CheckOpenalex(openalex).source = "none"

ClassifyPaperType(openalex, crossref) ==
    LET primary == CheckOpenalex(openalex)
        fallback == CheckCrossref(crossref)
    IN IF primary.source # "none" THEN primary
       ELSE IF fallback.source # "none" THEN fallback
       ELSE PaperType("NOT FOUND", "none", <<>>)

-----------------------------------------------------------------------------
(* utils.py: normalize_doi on the DOI strings of the model (strip, take the *)
(* DOI out of a doi.org URL, unquote, lower)                                *)

DOIS == {"10.1000/a", "https://doi.org/10.1000/B"}

\* strings that are no DOI: one that stays as it is, one that strips to ""
MalformedDois == {"not-a-doi", "   "}

normalize_doi(doi) ==
    CASE doi = "https://doi.org/10.1000/B" -> "10.1000/b"
      [] doi = "10.1000/a" -> "10.1000/a"
      [] doi = "not-a-doi" -> "not-a-doi"
      [] OTHER -> ""

\* DOI_REGEX.match on the strings normalize_doi yields
validate_doi(doi) == doi \in {"10.1000/a", "10.1000/b"}

-----------------------------------------------------------------------------
(* AnimalClassifier._doi_to_pmid and _pmid_to_mesh.  idconv and esearch are *)
(* the PMID each endpoint yields for the DOI (NONE: the request failed, or  *)
(* its answer holds no PMID); fetched is what the efetch request and the    *)
(* parse of its answer yield: raised, or the heading list of the article.   *)

\* A variant of _doi_to_pmid that queries both endpoints every time.
DoiToPmidBothEndpoints(idconv, esearch) ==
    [pmid |-> IF idconv # NONE THEN idconv ELSE esearch,
     requests |-> <<"idconv", "esearch">>]

DoiToPmid(idconv, esearch) ==
    IF idconv # NONE THEN [pmid |-> idconv, requests |-> <<"idconv">>]
    ELSE [pmid |-> esearch, requests |-> <<"idconv", "esearch">>]

PmidToMesh(pmid, fetched) ==
    IF fetched.raised
    THEN [mesh_terms |-> <<>>, metadata |-> Absent]
    ELSE [mesh_terms |-> fetched.headings,
          metadata |-> [pmid |-> pmid, mesh_count |-> Len(fetched.headings)]]

-----------------------------------------------------------------------------
(* AnimalClassifier.classify_animal_studies([doi]) as classify_single_paper *)
(* calls it: the result dict, the counters and the requests issued          *)

NotClassified ==
    [animals_used |-> FALSE, animals_confidence |-> "NOT FOUND",
     in_vivo |-> FALSE, in_vivo_confidence |-> "NOT FOUND", species |-> <<>>]

FirstThree(terms) ==
    [i \in 1..(IF Len(terms) < 3 THEN Len(terms) ELSE 3) |->
        Label(terms[i].name, terms[i].ui)]

ClassifySinglePaper(self, doi, idconv, esearch, fetched) ==
    LET clean_doi == normalize_doi(doi)
        lookup == DoiToPmid(idconv, esearch)
        pmid == lookup.pmid
        mesh == PmidToMesh(pmid, fetched)
        classified == ClassifyTerms(self, mesh.mesh_terms)
    IN IF clean_doi = ""
       THEN [result |-> NotClassified @@ [doi |-> doi, error |-> "Invalid DOI format"],
             stats |-> self.stats,
             requests |-> <<>>,
             calls |-> <<>>]
       ELSE IF pmid = NONE
       THEN [result |-> NotClassified @@
                        [doi |-> clean_doi, pmid |-> NONE, error |-> "PMID not found"],
             stats |-> [self.stats EXCEPT !.pmid_not_found = @ + 1],
             requests |-> lookup.requests,
             calls |-> <<"_doi_to_pmid">>]
       ELSE IF mesh.mesh_terms = <<>>
       THEN [result |-> NotClassified @@
                        [doi |-> clean_doi, pmid |-> pmid, error |-> "No MeSH terms found"],
             stats |-> [self.stats EXCEPT !.mesh_not_found = @ + 1],
             requests |-> lookup.requests \o <<"efetch">>,
             calls |-> <<"_doi_to_pmid", "_pmid_to_mesh">>]
       ELSE [result |->
                [doi |-> clean_doi,
                 pmid |-> pmid,
                 mesh_count |-> Get(mesh.metadata, "mesh_count", 0),
                 animals_used |-> classified.animals.value,
                 animals_confidence |-> classified.animals.confidence,
                 animal_evidence |-> classified.animals.evidence,
                 in_vivo |-> classified.in_vivo.value,
                 in_vivo_confidence |-> classified.in_vivo.confidence,
                 in_vivo_evidence |-> classified.in_vivo.evidence,
                 species |-> classified.species.species,
                 species_evidence |-> classified.species.evidence,
                 mesh_terms_debug |-> FirstThree(mesh.mesh_terms)],
             stats |-> UpdateStats(self.stats, classified),
             requests |-> lookup.requests \o <<"efetch">>,
             calls |-> <<"_doi_to_pmid", "_pmid_to_mesh", "_classify_animals_used",
                         "_classify_in_vivo", "_extract_species">>]

-----------------------------------------------------------------------------
(* utils.py: process_doi_row_by_row and the partition of                    *)
(* process_all_dois_row_by_row                                              *)

DefaultFields ==
    [pmid |-> NONE, mesh_count |-> 0,
     animals_used |-> FALSE, animals_confidence |-> "NOT FOUND", animal_evidence |-> <<>>,
     in_vivo |-> FALSE, in_vivo_confidence |-> "NOT FOUND", in_vivo_evidence |-> <<>>,
     species |-> <<>>, species_evidence |-> <<>>, mesh_terms_debug |-> <<>>]

\* result.update({...}) with the .get defaults, and the error key
UpdateFromAnimalResult(animal_result) ==
    [pmid |-> Get(animal_result, "pmid", NONE),
     mesh_count |-> Get(animal_result, "mesh_count", 0),
     animals_used |-> Get(animal_result, "animals_used", FALSE),
     animals_confidence |-> Get(animal_result, "animals_confidence", "NOT FOUND"),
     animal_evidence |-> Get(animal_result, "animal_evidence", <<>>),
     in_vivo |-> Get(animal_result, "in_vivo", FALSE),
     in_vivo_confidence |-> Get(animal_result, "in_vivo_confidence", "NOT FOUND"),
     in_vivo_evidence |-> Get(animal_result, "in_vivo_evidence", <<>>),
     species |-> Get(animal_result, "species", <<>>),
     species_evidence |-> Get(animal_result, "species_evidence", <<>>),
     mesh_terms_debug |-> Get(animal_result, "mesh_terms_debug", <<>>)]

WithAnimalError(result, animal_result) ==
    IF "error" \in DOMAIN animal_result
    THEN result @@ [animal_classification_error |-> animal_result["error"]]
    ELSE result

IsExcludedType(paper_type) == paper_type \in EXCLUDED_TYPES_COMPLETE

\* A variant of process_doi_row_by_row that classifies every paper, excluded
\* types too.
ProcessDoiRowByRowNoGate(doi, self, openalex, crossref, idconv, esearch, fetched) ==
    LET q1 == ClassifyPaperType(openalex, crossref)
        head == [doi |-> doi, title |-> q1.title, paper_type |-> q1.paper_type,
                 classification_source |-> q1.source]
        animal == ClassifySinglePaper(self, doi, idconv, esearch, fetched)
    IN [result |-> WithAnimalError(head @@ UpdateFromAnimalResult(animal.result),
                                   animal.result),
        stats |-> animal.stats,
        requests |-> <<"openalex">> \o animal.requests,
        calls |-> <<"classify_paper_type", "classify_single_paper">> \o animal.calls]

ProcessDoiRowByRow(doi, self, openalex, crossref, idconv, esearch, fetched) ==
    LET q1 == ClassifyPaperType(openalex, crossref)
        head == [doi |-> doi, title |-> q1.title, paper_type |-> q1.paper_type,
                 classification_source |-> q1.source]
        q1_requests ==
            IF QueriesCrossref(openalex) THEN <<"openalex", "crossref">>
            ELSE <<"openalex">>
        animal == ClassifySinglePaper(self, doi, idconv, esearch, fetched)
    IN IF ~IsExcludedType(q1.paper_type)
       THEN [result |-> WithAnimalError(head @@ UpdateFromAnimalResult(animal.result),
                                        animal.result),
             stats |-> animal.stats,
             requests |-> q1_requests \o animal.requests,
             calls |-> <<"classify_paper_type", "classify_single_paper">> \o animal.calls]
       ELSE [result |-> head @@ DefaultFields,
             stats |-> self.stats,
             requests |-> q1_requests,
             calls |-> <<"classify_paper_type">>]

\* A variant of the partition that also excludes what no source knew.
BucketBySource(result) ==
    IF IsExcludedType(result.paper_type) \/ result.classification_source = "none"
    THEN "excluded" ELSE "included"

\* result["paper_type"] in review_filter.EXCLUDED_TYPES_COMPLETE
Bucket(result) == IF IsExcludedType(result.paper_type) THEN "excluded" ELSE "included"

\* A variant of the deduplication that keeps the last occurrence of a DOI.
RECURSIVE UniqueDoisKeepLast(_)
UniqueDoisKeepLast(seq) ==
    IF seq = <<>> THEN <<>>
    ELSE LET rest == UniqueDoisKeepLast(Tail(seq))
         IN IF Contains(rest, Head(seq)) THEN rest ELSE <<Head(seq)>> \o rest

\* A variant of the deduplication that keeps every entry.
UniqueDoisKeepAll(seq) == seq

\* list(dict.fromkeys(dois))
RECURSIVE UniqueDois(_)
UniqueDois(seq) ==
    IF seq = <<>> THEN <<>>
    ELSE LET front == UniqueDois(SubSeq(seq, 1, Len(seq) - 1))
             last == seq[Len(seq)]
         IN IF Contains(front, last) THEN front ELSE Append(front, last)

-----------------------------------------------------------------------------
(* Inputs of the classifier calls *)

Term(ui, name) == [ui |-> ui, name |-> name]

\* One term per class of code the tables distinguish; the name of a term is
\* whatever PubMed sent, so one code appears under two names.
MeshUniverse ==
    { Term("D000818", "Animals"),              \* animal indicator only
      Term("D023421", "Models, Animal"),       \* animal indicator and in-vivo support
      Term("D006801", "Humans"),               \* the human code
      Term("D066298", "In Vitro Techniques"),  \* in vitro in both tables
      Term("D046508", "Cell Culture"),         \* in vitro in the in-vivo table only
      Term("D001522", "Behavioral Phenomena"), \* in-vivo support only
      Term("D051379", "Mice"),
      Term("D051379", "Mice, Inbred C57BL"),
      Term("D051381", "Rats") }

TermListsUpTo(n) == UNION { [1..k -> MeshUniverse] : k \in 0..n }

TermLists == TermListsUpTo(MaxTerms)

Confidences == {"high", "medium", "low", "NOT FOUND"}

Configurations == { AnimalClassifier(a, h) : a \in BOOLEAN, h \in BOOLEAN }

-----------------------------------------------------------------------------
(* The remote endpoints the pipeline calls for one DOI *)

\* the answer of a remote endpoint as the pipeline state records it
Answer(data) == [called |-> TRUE, data |-> data]

NoAnswer == [called |-> FALSE]

Endpoints == {"openalex", "crossref", "idconv", "esearch", "efetch"}

NoAnswers == [e \in Endpoints |-> NoAnswer]

-----------------------------------------------------------------------------
(* Idle values of the parts a specification does not exercise *)

ClassifyIdle ==
    /\ mesh_terms = <<>>
    /\ animals_result = Absent
    /\ in_vivo_args = <<>>
    /\ in_vivo_result = Absent
    /\ species_result = Absent

RerunIdle == first_run = Absent /\ last_run = Absent

ResolverIdle == openalex_data = Absent /\ crossref_data = Absent /\ resolved = Absent

PipelineIdle ==
    /\ dois = <<>>
    /\ pos = 1
    /\ included_results = <<>>
    /\ excluded_results = <<>>
    /\ requests = <<>>
    /\ answers = NoAnswers
    /\ calls = <<>>

RequestIdle ==
    /\ call_pc = "idle"
    /\ frames = 0
    /\ attempts = 0
    /\ responses = <<>>
    /\ call_result = Absent

EvalIdle == eval_pc = "idle" /\ eval_verdict = Absent

PaceIdle ==
    /\ pace_pc = "idle"
    /\ now = 0
    /\ last_request = 0
    /\ sent_at = <<>>

-----------------------------------------------------------------------------
(* SpecClassify: the three classifiers called on one term list, in the     *)
(* order of classify_animal_studies (steps 3, 4, 5).  The in-vivo           *)
(* classifier takes the animal verdict as arguments, so a caller may hand   *)
(* it any verdict, not only the one step 3 returned.                        *)

InitClassify ==
    /\ entry = "classify"
    /\ animal_classifier \in Configurations
    /\ mesh_terms \in TermLists
    /\ animals_result = Absent
    /\ in_vivo_args = <<>>
    /\ in_vivo_result = Absent
    /\ species_result = Absent
    /\ RerunIdle /\ ResolverIdle /\ PaceIdle /\ RequestIdle /\ EvalIdle /\ PipelineIdle

CallClassifyAnimalsUsed ==
    /\ entry = "classify"
    /\ animals_result = Absent
    /\ animals_result' = ClassifyAnimalsUsed(animal_classifier, mesh_terms)
    /\ UNCHANGED <<entry, pace_vars, request_vars, eval_vars, animal_classifier, mesh_terms, in_vivo_args, in_vivo_result,
                   species_result, rerun_vars, resolver_vars, pipeline_vars>>

CallClassifyInVivo ==
    /\ entry = "classify"
    /\ animals_result # Absent
    /\ in_vivo_result = Absent
    /\ \E animals_used \in BOOLEAN, animals_confidence \in Confidences :
          /\ in_vivo_args' = <<animals_used, animals_confidence>>
          /\ in_vivo_result' =
                ClassifyInVivo(animal_classifier, mesh_terms, animals_used,
                               animals_confidence)
    /\ UNCHANGED <<entry, pace_vars, request_vars, eval_vars, animal_classifier, mesh_terms, animals_result, species_result,
                   rerun_vars, resolver_vars, pipeline_vars>>

CallExtractSpecies ==
    /\ entry = "classify"
    /\ in_vivo_result # Absent
    /\ species_result = Absent
    /\ species_result' = ExtractSpecies(animal_classifier, mesh_terms)
    /\ UNCHANGED <<entry, pace_vars, request_vars, eval_vars, animal_classifier, mesh_terms, animals_result, in_vivo_args,
                   in_vivo_result, rerun_vars, resolver_vars, pipeline_vars>>

NextClassify == CallClassifyAnimalsUsed \/ CallClassifyInVivo \/ CallExtractSpecies

SpecClassify == InitClassify /\ [][NextClassify]_vars


-----------------------------------------------------------------------------
(* C4 *)

HasTermIn(terms, table) == \E i \in 1..Len(terms) : terms[i].ui \in table

\* C4 as stated: whenever the term list holds a term that the classifiers
\* treat as an in-vitro indicator (a code of either in-vitro table of
\* animal_classifier.py), _classify_animals_used returns neither "high"
\* nor "medium".
C4_AnyInVitroIndicator ==
    (animals_result # Absent
       /\ HasTermIn(mesh_terms, DOMAIN in_vitro_uis \cup DOMAIN in_vivo_in_vitro_uis))
    => animals_result.confidence \notin {"high", "medium"}

\* C4 amended: whenever the term list holds a term whose code is in the
\* in-vitro table of _classify_animals_used itself (D066298, D002478,
\* D018929), the returned confidence is neither "high" nor "medium",
\* whatever the number of animal-indicator terms and the configuration.
C4_OwnInVitroTable ==
    (animals_result # Absent /\ HasTermIn(mesh_terms, DOMAIN in_vitro_uis))
    => animals_result.confidence \notin {"high", "medium"}

\* Two animal indicators ("high" before the downgrade) next to an in-vitro
\* term, and also one animal indicator ("medium" before the downgrade).
C4_Witness ==
    /\ animals_result # Absent
    /\ animal_classifier.include_animals
    /\ Len(mesh_terms) = 3
    /\ mesh_terms[1].ui \in DOMAIN animal_mesh_uis
    /\ mesh_terms[2].ui \in DOMAIN animal_mesh_uis
    /\ mesh_terms[3].ui \in DOMAIN in_vitro_uis
    /\ animals_result.value
    /\ animals_result.confidence = "low"

-----------------------------------------------------------------------------
(* C6 *)

\* the index of the first term of the list whose code maps to the name
FirstMatch(terms, species_name) ==
    CHOOSE i \in 1..Len(terms) :
        /\ terms[i].ui \in DOMAIN species_mapping
        /\ species_mapping[terms[i].ui] = species_name
        /\ \A j \in 1..(i - 1) :
              ~(terms[j].ui \in DOMAIN species_mapping
                  /\ species_mapping[terms[j].ui] = species_name)

Matches(terms, species_name) ==
    \E i \in 1..Len(terms) :
        terms[i].ui \in DOMAIN species_mapping
          /\ species_mapping[terms[i].ui] = species_name

\* C6: the species list of _extract_species holds no name twice, every
\* name in it is matched by a term, and the names stand in the order of
\* their first matching terms in the term list.
C6_SpeciesUniqueFirstSeen ==
    species_result # Absent =>
        LET sp == species_result.species
        IN /\ \A i, j \in 1..Len(sp) : i # j => sp[i] # sp[j]
           /\ \A i \in 1..Len(sp) : Matches(mesh_terms, sp[i])
           /\ \A i, j \in 1..Len(sp) :
                 i < j => FirstMatch(mesh_terms, sp[i]) < FirstMatch(mesh_terms, sp[j])

\* Rats, Mice, and Mice again under another name: two names, Rats first.
C6_Witness ==
    /\ species_result # Absent
    /\ Len(mesh_terms) = 3
    /\ mesh_terms[1].ui = "D051381"
    /\ mesh_terms[2].ui = "D051379"
    /\ mesh_terms[3].ui = "D051379"
    /\ species_result.species = <<"Rats", "Mice">>


-----------------------------------------------------------------------------
(* SpecRerun: one AnimalClassifier classifying several papers in a row, as  *)
(* the loop of classify_animal_studies does.  mesh_terms is the term list   *)
(* that is classified again; the others come in between.                    *)

OtherTermLists ==
    { <<Term("D000818", "Animals"), Term("D051379", "Mice")>>,
      <<Term("D023421", "Models, Animal"), Term("D000818", "Animals")>>,
      <<Term("D006801", "Humans"), Term("D066298", "In Vitro Techniques")>> }

Run(at, classified) == [at |-> at, result |-> classified]

InitRerun ==
    /\ entry = "rerun"
    /\ animal_classifier \in Configurations
    /\ mesh_terms \in TermListsUpTo(MaxRerunTerms)
    /\ animals_result = Absent
    /\ in_vivo_args = <<>>
    /\ in_vivo_result = Absent
    /\ species_result = Absent
    /\ RerunIdle /\ ResolverIdle /\ PaceIdle /\ RequestIdle /\ EvalIdle /\ PipelineIdle

ClassifyAgain ==
    /\ entry = "rerun"
    /\ animal_classifier.stats.processed < MaxRuns
    /\ LET classified == ClassifyTerms(animal_classifier, mesh_terms)
           run == Run(animal_classifier.stats.processed, classified)
       IN /\ first_run' = IF first_run = Absent THEN run ELSE first_run
          /\ last_run' = run
          /\ animal_classifier' =
                [animal_classifier EXCEPT !.stats = UpdateStats(@, classified)]
    /\ UNCHANGED <<entry, pace_vars, request_vars, eval_vars, classify_vars, resolver_vars, pipeline_vars>>

ClassifyOther ==
    /\ entry = "rerun"
    /\ animal_classifier.stats.processed < MaxRuns
    /\ \E other \in OtherTermLists :
          animal_classifier' =
              [animal_classifier EXCEPT
                  !.stats = UpdateStats(@, ClassifyTerms(animal_classifier, other))]
    /\ UNCHANGED <<entry, pace_vars, request_vars, eval_vars, classify_vars, rerun_vars, resolver_vars, pipeline_vars>>

NextRerun == ClassifyAgain \/ ClassifyOther

SpecRerun == InitRerun /\ [][NextRerun]_vars

-----------------------------------------------------------------------------
(* Inputs of the paper-type resolver: what the two metadata sources answer  *)

PlainTitle == <<"Effects", "in", "mice">>
ReviewTitle == <<"A", "Systematic", "Review", "of", "X">>

Titles ==
    { <<>>,
      PlainTitle,
      ReviewTitle,
      <<"Overview", "of", "the", "field">>,
      <<"Drug", "X", ":", "a", "review">>,
      <<"Peer", "Review", ":", "pitfalls">>,
      <<"Meta-Analysis", "of", "Y">> }

OpenAlexTypes ==
    {"article", "Article", "review", "Editorial", "letter", "book-chapter", "", NULL}

OpenAlexResponses ==
    {Absent}
    \cup { [title |-> t, type |-> ty] : t \in Titles, ty \in OpenAlexTypes }
    \cup { [title |-> t, type |-> ty, type_crossref |-> tc] :
             t \in Titles, ty \in OpenAlexTypes,
             tc \in {"journal-article", "Book-Chapter"} }

TitleLists ==
    { <<>>,
      <<PlainTitle>>,
      <<ReviewTitle>>,
      << <<"A", "Systematic">>, <<"Review", "of", "X">> >>,
      << PlainTitle, <<"Drug", "X", ":", "a", "review">> >> }

CrossrefTypes == {"journal-article", "book-chapter", "Letter", "", NULL}

CrossrefResponses ==
    {Absent, [status |-> "ok"]}
    \cup { [message |-> [type |-> ty, title |-> tl]] :
             ty \in CrossrefTypes, tl \in TitleLists }
    \cup { [message |-> [type |-> ty]] : ty \in CrossrefTypes }

NotCalled == [not_called |-> TRUE]

-----------------------------------------------------------------------------
(* SpecResolve: one call of ReviewFilter.classify_paper_type *)

InitResolve ==
    /\ entry = "resolve"
    /\ animal_classifier = AnimalClassifier(TRUE, FALSE)
    /\ ClassifyIdle /\ RerunIdle /\ ResolverIdle /\ PaceIdle /\ RequestIdle /\ EvalIdle /\ PipelineIdle

CallClassifyPaperType ==
    /\ entry = "resolve"
    /\ resolved = Absent
    /\ \E openalex \in OpenAlexResponses, crossref \in CrossrefResponses :
          /\ openalex_data' = openalex
          /\ crossref_data' = IF QueriesCrossref(openalex) THEN crossref ELSE NotCalled
          /\ resolved' = ClassifyPaperType(openalex, crossref)
          /\ requests' = IF QueriesCrossref(openalex) THEN <<"openalex", "crossref">>
                         ELSE <<"openalex">>
    /\ UNCHANGED <<entry, pace_vars, request_vars, eval_vars, animal_classifier, classify_vars, rerun_vars,
                   dois, pos, included_results, excluded_results, answers, calls>>

NextResolve == CallClassifyPaperType

SpecResolve == InitResolve /\ [][NextResolve]_vars

-----------------------------------------------------------------------------
(* Inputs of the pipeline *)

DoiLists == UNION { [1..n -> DOIS] : n \in 0..MaxDois }

PipelineOpenAlex ==
    { Absent,
      [title |-> PlainTitle, type |-> "article"],
      [title |-> PlainTitle, type |-> "Editorial"],
      [title |-> ReviewTitle, type |-> "article"],
      [title |-> PlainTitle],
      [title |-> PlainTitle, type |-> NULL] }

PipelineCrossref ==
    { Absent,
      [message |-> [type |-> "journal-article", title |-> <<PlainTitle>>]],
      [message |-> [type |-> "book-chapter", title |-> <<PlainTitle>>]],
      [message |-> [type |-> "journal-article", title |-> <<ReviewTitle>>]] }

Pmids == {NONE, "31452104"}

\* what session.get, raise_for_status and the XML parse of _pmid_to_mesh yield
Fetched(headings) == [raised |-> FALSE, headings |-> headings]

FetchFailed == [raised |-> TRUE]

PipelineTermLists ==
    { <<>>,
      <<Term("D000818", "Animals"), Term("D051379", "Mice")>>,
      <<Term("D000818", "Animals"), Term("D066298", "In Vitro Techniques")>>,
      <<Term("D023421", "Models, Animal"), Term("D000818", "Animals"),
        Term("D051381", "Rats"), Term("D051379", "Mice")>>,
      <<Term("D006801", "Humans")>> }

FetchResponses == {FetchFailed} \cup { Fetched(t) : t \in PipelineTermLists }

-----------------------------------------------------------------------------
(* SpecPipeline: process_all_dois_row_by_row(dois, email).  One step is one *)
(* pass of its loop: process_doi_row_by_row and the partition.              *)

unique_dois == UniqueDois(dois)

InitPipeline ==
    /\ entry = "pipeline"
    /\ animal_classifier = AnimalClassifier(TRUE, FALSE)
    /\ dois \in DoiLists
    /\ pos = 1
    /\ included_results = <<>>
    /\ excluded_results = <<>>
    /\ requests = <<>>
    /\ answers = NoAnswers
    /\ calls = <<>>
    /\ ClassifyIdle /\ RerunIdle /\ ResolverIdle /\ PaceIdle /\ RequestIdle /\ EvalIdle

ProcessNextDoi ==
    /\ entry \in {"pipeline", "row"}
    /\ pos <= Len(unique_dois)
    /\ \E openalex \in PipelineOpenAlex, crossref \in PipelineCrossref,
          idconv \in Pmids, esearch \in Pmids, fetched \in FetchResponses :
          \E done \in { ProcessDoiRowByRow(unique_dois[pos], animal_classifier, openalex,
                                            crossref, idconv, esearch, fetched) } :
             /\ IF Bucket(done.result) = "excluded"
                THEN /\ excluded_results' = Append(excluded_results, done.result)
                     /\ UNCHANGED included_results
                ELSE /\ included_results' = Append(included_results, done.result)
                     /\ UNCHANGED excluded_results
             /\ animal_classifier' = [animal_classifier EXCEPT !.stats = done.stats]
             /\ requests' = done.requests
             /\ calls' = done.calls
             /\ answers' =
                   [e \in Endpoints |->
                      IF ~Contains(done.requests, e) THEN NoAnswer
                      ELSE CASE e = "openalex" -> Answer(openalex)
                             [] e = "crossref" -> Answer(crossref)
                             [] e = "idconv" -> Answer(idconv)
                             [] e = "esearch" -> Answer(esearch)
                             [] e = "efetch" -> Answer(fetched)]
    /\ pos' = pos + 1
    /\ UNCHANGED <<entry, pace_vars, request_vars, eval_vars, dois, classify_vars, rerun_vars, resolver_vars>>

NextPipeline == ProcessNextDoi

SpecPipeline == InitPipeline /\ [][NextPipeline]_vars

-----------------------------------------------------------------------------
(* SpecRow: process_doi_row_by_row called for one string, a DOI or not, as  *)
(* process_all_dois_row_by_row calls it for a list of one                   *)

InitRow ==
    /\ entry = "row"
    /\ animal_classifier = AnimalClassifier(TRUE, FALSE)
    /\ dois \in { <<d>> : d \in DOIS \cup MalformedDois }
    /\ pos = 1
    /\ included_results = <<>>
    /\ excluded_results = <<>>
    /\ requests = <<>>
    /\ answers = NoAnswers
    /\ calls = <<>>
    /\ ClassifyIdle /\ RerunIdle /\ ResolverIdle /\ PaceIdle /\ RequestIdle /\ EvalIdle

SpecRow == InitRow /\ [][NextPipeline]_vars

-----------------------------------------------------------------------------
(* utils.py: create_http_session and make_api_request.  A session carries   *)
(* an HTTPAdapter with Retry(total=3, status_forcelist=[429, 500, ...]):    *)
(* within one session.get the adapter sends the request again, up to total *)
(* times, when no answer comes or the status is in the forcelist, and       *)
(* raises once the retries are used up (raise_on_status is left at its      *)
(* default); make_api_request sees only what the adapter lets through.      *)

HTTP_SUCCESS == 200
HTTP_NOT_FOUND == 404
HTTP_RATE_LIMITED == 429
HTTP_SERVER_ERROR == 500

\* the status of a request that got no answer (connection error, timeout)
NO_RESPONSE == 0

retry_total == 3

\* A variant of the retry strategy that leaves 429 to make_api_request.
status_forcelist_without_429 == {500, 502, 503, 504}

status_forcelist == {429, 500, 502, 503, 504}

\* what the adapter does with the answer to the sent-th request of a get
AdapterOutcome(sent, status) ==
    IF status = NO_RESPONSE \/ status \in status_forcelist
    THEN IF sent <= retry_total THEN "retry" ELSE "raise"
    ELSE "response"

\* response.json() of a well-formed body
JsonBody == [json |-> TRUE]

\* make_api_request on the response session.get returned
HandleResponse(status, body) ==
    IF status = HTTP_RATE_LIMITED
    THEN [again |-> TRUE]
    ELSE IF status = HTTP_SUCCESS
    THEN [again |-> FALSE, value |-> IF body = "json" THEN JsonBody ELSE Absent]
    ELSE [again |-> FALSE, value |-> Absent]

Statuses == {NO_RESPONSE, HTTP_SUCCESS, 403, HTTP_NOT_FOUND, HTTP_RATE_LIMITED,
             HTTP_SERVER_ERROR}

Bodies == {"json", "garbage"}

-----------------------------------------------------------------------------
(* SpecRequest: one call of make_api_request against a server that answers  *)
(* each request as it likes.  One step is one request sent and answered.    *)

InitRequest ==
    /\ entry = "request"
    /\ animal_classifier = AnimalClassifier(TRUE, FALSE)
    /\ call_pc = "running"
    /\ frames = 1
    /\ attempts = 0
    /\ responses = <<>>
    /\ call_result = Absent
    /\ ClassifyIdle /\ RerunIdle /\ ResolverIdle /\ PaceIdle /\ EvalIdle /\ PipelineIdle

ServerAnswers ==
    /\ entry = "request"
    /\ call_pc = "running"
    /\ Len(responses) < MaxRequests
    /\ \E status \in Statuses, body \in Bodies :
          LET sent == attempts + 1
              outcome == AdapterOutcome(sent, status)
              handled == HandleResponse(status, body)
          IN /\ responses' = Append(responses, status)
             /\ CASE outcome = "retry" ->
                       /\ attempts' = sent
                       /\ UNCHANGED <<call_pc, frames, call_result>>
                  [] outcome = "raise" ->
                       \* RetryError or ConnectionError, caught at utils.py:118
                       /\ attempts' = sent
                       /\ call_pc' = "returned"
                       /\ call_result' = Absent
                       /\ UNCHANGED frames
                  [] outcome = "response" /\ handled.again ->
                       /\ frames' = frames + 1
                       /\ attempts' = 0
                       /\ UNCHANGED <<call_pc, call_result>>
                  [] outcome = "response" /\ ~handled.again ->
                       /\ attempts' = sent
                       /\ call_pc' = "returned"
                       /\ call_result' = handled.value
                       /\ UNCHANGED frames
    /\ UNCHANGED <<entry, pace_vars, animal_classifier, classify_vars, rerun_vars, resolver_vars,
                   pipeline_vars, eval_vars>>

NextRequest == ServerAnswers

SpecRequest == InitRequest /\ [][NextRequest]_vars

\* every request is answered or times out (timeout=30)
FairSpecRequest == SpecRequest /\ WF_vars(ServerAnswers)

-----------------------------------------------------------------------------
(* SpecEvaluate: the classifiers of one paper evaluated statement group by  *)
(* statement group: _classify_animals_used sets its verdict (the defaults   *)
(* and the if / elif), then reduces the confidence, and returns;            *)
(* _classify_in_vivo sets its verdict in one of its branches and returns.   *)

\* the verdict variables of the evaluation of one classifier
Evaluation(of, verdict) == [of |-> of, verdict |-> verdict]

InitEvaluate ==
    /\ entry = "evaluate"
    /\ animal_classifier \in Configurations
    /\ mesh_terms \in TermLists
    /\ animals_result = Absent
    /\ in_vivo_args = <<>>
    /\ in_vivo_result = Absent
    /\ species_result = Absent
    /\ eval_pc = "start"
    /\ eval_verdict = Absent
    /\ RerunIdle /\ ResolverIdle /\ PaceIdle /\ RequestIdle /\ PipelineIdle

AssignAnimalsVerdict ==
    /\ entry = "evaluate"
    /\ eval_pc = "start"
    /\ eval_pc' = "assigned"
    /\ eval_verdict' =
          Evaluation("animals_used", AnimalsUsedVerdict(animal_classifier, mesh_terms))
    /\ UNCHANGED <<entry, pace_vars, animal_classifier, classify_vars, rerun_vars, resolver_vars,
                   pipeline_vars, request_vars>>

ReduceAndReturn ==
    /\ entry = "evaluate"
    /\ eval_pc = "assigned"
    /\ eval_pc' = "returned"
    /\ eval_verdict' =
          Evaluation("animals_used", ReduceConfidence(eval_verdict.verdict, mesh_terms))
    /\ animals_result' = eval_verdict'.verdict
    /\ UNCHANGED <<entry, pace_vars, animal_classifier, mesh_terms, in_vivo_args, in_vivo_result,
                   species_result, rerun_vars, resolver_vars, pipeline_vars, request_vars>>

EvaluateInVivo ==
    /\ entry = "evaluate"
    /\ eval_pc = "returned"
    /\ eval_pc' = "done"
    /\ in_vivo_args' = <<animals_result.value, animals_result.confidence>>
    /\ in_vivo_result' =
          ClassifyInVivo(animal_classifier, mesh_terms, animals_result.value,
                         animals_result.confidence)
    /\ eval_verdict' = Evaluation("in_vivo", in_vivo_result')
    /\ UNCHANGED <<entry, pace_vars, animal_classifier, mesh_terms, animals_result, species_result,
                   rerun_vars, resolver_vars, pipeline_vars, request_vars>>

NextEvaluate == AssignAnimalsVerdict \/ ReduceAndReturn \/ EvaluateInVivo

SpecEvaluate == InitEvaluate /\ [][NextEvaluate]_vars

-----------------------------------------------------------------------------
(* SpecPace: the requests of one AnimalClassifier on its session, paper     *)
(* after paper, with the time at which each is sent.  _doi_to_pmid goes     *)
(* through make_api_request, which waits until rate_limit has passed since  *)
(* session._last_request; _pmid_to_mesh calls session.get itself.           *)

\* session._rate_limit of the NCBI session, in ticks
rate_limit == 2

\* when make_api_request, entered at time at, sends its request
SendTime(at, last) == IF at - last < rate_limit THEN last + rate_limit ELSE at

InitPace ==
    /\ entry = "pace"
    /\ animal_classifier = AnimalClassifier(TRUE, FALSE)
    /\ pace_pc = "idconv"
    /\ now = rate_limit
    /\ last_request = 0
    /\ sent_at = <<>>
    /\ ClassifyIdle /\ RerunIdle /\ ResolverIdle /\ RequestIdle /\ EvalIdle /\ PipelineIdle

\* time passes: an answer is on its way, another session is used, a result
\* is compiled
Tick ==
    /\ entry = "pace"
    /\ now < MaxTime
    /\ now' = now + 1
    /\ UNCHANGED <<entry, animal_classifier, classify_vars, rerun_vars, resolver_vars,
                   pipeline_vars, request_vars, eval_vars, pace_pc, last_request, sent_at>>

\* _doi_to_pmid, method 1: make_api_request on the conversion endpoint
IdconvRequest ==
    /\ entry = "pace"
    /\ pace_pc = "idconv"
    /\ Len(sent_at) < MaxSent
    /\ \E latency \in 0..1 :
          LET sent == SendTime(now, last_request)
          IN /\ sent_at' = Append(sent_at, sent)
             /\ now' = sent + latency
             /\ last_request' = sent + latency
    /\ \E found \in BOOLEAN : pace_pc' = IF found THEN "efetch" ELSE "esearch"
    /\ UNCHANGED <<entry, animal_classifier, classify_vars, rerun_vars, resolver_vars,
                   pipeline_vars, request_vars, eval_vars>>

\* _doi_to_pmid, method 2: make_api_request on the search endpoint
EsearchRequest ==
    /\ entry = "pace"
    /\ pace_pc = "esearch"
    /\ Len(sent_at) < MaxSent
    /\ \E latency \in 0..1 :
          LET sent == SendTime(now, last_request)
          IN /\ sent_at' = Append(sent_at, sent)
             /\ now' = sent + latency
             /\ last_request' = sent + latency
    /\ \E found \in BOOLEAN : pace_pc' = IF found THEN "efetch" ELSE "idconv"
    /\ UNCHANGED <<entry, animal_classifier, classify_vars, rerun_vars, resolver_vars,
                   pipeline_vars, request_vars, eval_vars>>

\* _pmid_to_mesh: self.session.get on the fetch endpoint, and for a paper
\* that is classified the time.sleep(1.0 / self.rate_limit) at the end of
\* the loop body
EfetchRequest ==
    /\ entry = "pace"
    /\ pace_pc = "efetch"
    /\ Len(sent_at) < MaxSent
    /\ sent_at' = Append(sent_at, now)
    /\ \E classified \in BOOLEAN :
          now' = IF classified THEN now + rate_limit ELSE now
    /\ pace_pc' = "idconv"
    /\ UNCHANGED <<entry, animal_classifier, classify_vars, rerun_vars, resolver_vars,
                   pipeline_vars, request_vars, eval_vars, last_request>>

NextPace == Tick \/ IdconvRequest \/ EsearchRequest \/ EfetchRequest

SpecPace == InitPace /\ [][NextPace]_vars

-----------------------------------------------------------------------------
(* Spec: every entry point *)

Init == InitClassify \/ InitRerun \/ InitResolve \/ InitPipeline \/ InitRequest
           \/ InitEvaluate \/ InitRow \/ InitPace

Next ==
    \/ CallClassifyAnimalsUsed
    \/ CallClassifyInVivo
    \/ CallExtractSpecies
    \/ ClassifyAgain
    \/ ClassifyOther
    \/ CallClassifyPaperType
    \/ ProcessNextDoi
    \/ ServerAnswers
    \/ AssignAnimalsVerdict
    \/ ReduceAndReturn
    \/ EvaluateInVivo
    \/ Tick
    \/ IdconvRequest
    \/ EsearchRequest
    \/ EfetchRequest

Spec == Init /\ [][Next]_vars


-----------------------------------------------------------------------------
(* C7 *)

\* C7: classifying a term list again with the same AnimalClassifier, after
\* any classifications of other term lists in between, returns the verdicts,
\* confidences, evidence and species of the first classification.
C7_RerunSameResult ==
    last_run # Absent => last_run.result = first_run.result

\* The term list was classified first, a list with animals and a species
\* was classified in between, and the term list was classified again.
C7_Witness ==
    /\ last_run # Absent
    /\ first_run.at = 0
    /\ last_run.at = 2
    /\ last_run.result.animals.value
    /\ last_run.result.animals.confidence = "medium"
    /\ last_run.result.species.species = <<>>
    /\ animal_classifier.stats.species_found = 1
    /\ animal_classifier.stats.animals_found = 3


-----------------------------------------------------------------------------
(* Claims on the pipeline *)

AllResults == included_results \o excluded_results

DoiSet == { dois[i] : i \in 1..Len(dois) }

RecordsOf(doi) == { i \in 1..Len(AllResults) : AllResults[i].doi = doi }

Finished == entry = "pipeline" /\ pos > Len(unique_dois)

\* C1: process_all_dois_row_by_row holds at most one record per input DOI
\* while it runs and no record for another DOI; when it returns there is
\* exactly one record for every DOI of the input, and len(included) +
\* len(excluded) is the number of distinct input DOIs, whatever the remote
\* sources answered.
C1_OneRecordPerUniqueDoi ==
    /\ \A i \in 1..Len(AllResults) : AllResults[i].doi \in DoiSet
    /\ \A d \in DoiSet : Cardinality(RecordsOf(d)) <= 1
    /\ Finished =>
          /\ \A d \in DoiSet : Cardinality(RecordsOf(d)) = 1
          /\ Len(included_results) + Len(excluded_results) = Cardinality(DoiSet)

\* The input names one DOI twice and another once; both sources failed for
\* one of them, and the run is over.
C1_Witness ==
    /\ Finished
    /\ Len(dois) = 3
    /\ dois[1] = dois[3]
    /\ dois[1] # dois[2]
    /\ \E i \in 1..Len(AllResults) : AllResults[i].classification_source = "none"
    /\ Len(excluded_results) = 1

\* C2: a record is in the excluded bucket if and only if its paper_type is
\* in EXCLUDED_TYPES_COMPLETE (so every included record's paper_type is
\* outside it), whatever its other fields are.
C2_ExcludedIffExcludedType ==
    /\ \A i \in 1..Len(excluded_results) :
          excluded_results[i].paper_type \in EXCLUDED_TYPES_COMPLETE
    /\ \A i \in 1..Len(included_results) :
          included_results[i].paper_type \notin EXCLUDED_TYPES_COMPLETE

\* One record in each bucket, the included one without any source answer.
C2_Witness ==
    /\ Len(excluded_results) = 1
    /\ Len(included_results) = 1
    /\ excluded_results[1].paper_type = "openalex_review"
    /\ included_results[1].classification_source = "none"

\* C3: every record of the excluded bucket carries the default verdicts:
\* animals_used and in_vivo false with confidence "NOT FOUND", empty evidence
\* lists and species, pmid None and mesh_count 0.
C3_ExcludedHaveDefaults ==
    \A i \in 1..Len(excluded_results) :
        LET r == excluded_results[i]
        IN /\ r.animals_used = FALSE /\ r.animals_confidence = "NOT FOUND"
           /\ r.in_vivo = FALSE /\ r.in_vivo_confidence = "NOT FOUND"
           /\ r.animal_evidence = <<>> /\ r.in_vivo_evidence = <<>>
           /\ r.species = <<>> /\ r.species_evidence = <<>>
           /\ r.pmid = NONE /\ r.mesh_count = 0

\* An editorial was excluded after another paper had been classified as an
\* animal study.
C3_Witness ==
    /\ Len(excluded_results) = 1
    /\ excluded_results[1].paper_type = "editorial"
    /\ Len(included_results) = 1
    /\ included_results[1].animals_used
    /\ pos = 3

\* C5: in vivo implies animal use: a call of _classify_in_vivo returns
\* in_vivo = true only when it was handed animals_used = true, and every
\* record of the pipeline and every classification of classify_animal_studies
\* has in_vivo = true only with animals_used = true.
C5_InVivoImpliesAnimals ==
    /\ in_vivo_result # Absent => (in_vivo_result.value => in_vivo_args[1])
    /\ last_run # Absent =>
          (last_run.result.in_vivo.value => last_run.result.animals.value)
    /\ \A i \in 1..Len(AllResults) :
          AllResults[i].in_vivo => AllResults[i].animals_used

\* The in-vivo classifier was handed "no animals" together with a term list
\* that holds an in-vivo-supporting term, and answered false.
C5_Witness ==
    /\ in_vivo_result # Absent
    /\ in_vivo_args[1] = FALSE
    /\ HasTermIn(mesh_terms, DOMAIN in_vivo_supporting_uis)
    /\ in_vivo_result.value = FALSE
    /\ in_vivo_result.confidence = "NOT FOUND"

\* C8 as stated: a record for which both metadata sources failed
\* (classification_source "none") has paper_type "NOT FOUND" and is in the
\* excluded bucket.
C8_BothFailedIsExcluded ==
    /\ \A i \in 1..Len(AllResults) :
          AllResults[i].classification_source = "none"
              => AllResults[i].paper_type = "NOT FOUND"
    /\ \A i \in 1..Len(included_results) :
          included_results[i].classification_source # "none"

-----------------------------------------------------------------------------
(* Claims on the paper-type resolver *)

ExclusionTable == EXCLUDED_TYPES \cup EXCLUDED_CROSSREF_TYPES

DeclaredType(work_data) == Lower(Get(work_data, "type", ""))

\* C9 as stated: when the declared type of the source that answered is not
\* in the exclusion table and the title of the paper matches a review
\* pattern, paper_type is "<source>_review" and the record is excluded.
C9_ReviewTitleGivesMarker ==
    /\ (resolved # Absent /\ resolved.source = "openalex"
          /\ DeclaredType(openalex_data) \notin ExclusionTable
          /\ ReviewRegexSearch(resolved.title))
       => (resolved.paper_type = "openalex_review" /\ Bucket(resolved) = "excluded")
    /\ (resolved # Absent /\ resolved.source = "crossref"
          /\ DeclaredType(crossref_data["message"]) \notin ExclusionTable
          /\ ReviewRegexSearch(resolved.title))
       => (resolved.paper_type = "crossref_review" /\ Bucket(resolved) = "excluded")

\* C9 amended: when the declared type of the source that answered (for the
\* primary source: neither its type nor its type_crossref) is not in the
\* exclusion table and the title matches a review pattern (for the fallback
\* source: one entry of its title list matches on its own), paper_type is
\* "<source>_review" and the record is excluded.
C9_ReviewTitleGivesMarkerAmended ==
    /\ (resolved # Absent /\ resolved.source = "openalex"
          /\ DeclaredType(openalex_data) \notin ExclusionTable
          /\ Lower(Get(openalex_data, "type_crossref", "")) \notin ExclusionTable
          /\ ReviewRegexSearch(resolved.title))
       => (resolved.paper_type = "openalex_review"
             /\ resolved.paper_type \in EXCLUDED_TYPES_COMPLETE)
    /\ (resolved # Absent /\ resolved.source = "crossref"
          /\ DeclaredType(crossref_data["message"]) \notin ExclusionTable
          /\ \E k \in 1..Len(Get(crossref_data["message"], "title", <<>>)) :
                ReviewRegexSearch(crossref_data["message"]["title"][k]))
       => (resolved.paper_type = "crossref_review"
             /\ resolved.paper_type \in EXCLUDED_TYPES_COMPLETE)

\* The fallback source answered "journal-article" with a review title.
C9_Witness ==
    /\ resolved # Absent
    /\ resolved.source = "crossref"
    /\ crossref_data["message"]["type"] = "journal-article"
    /\ resolved.title = ReviewTitle
    /\ resolved.paper_type = "crossref_review"

\* C10 as stated: whenever the declared work-type string of the source that
\* answered is one of the ten excluded types, the resolver returns that very
\* string as paper_type, whatever the title.
C10_TypeExclusionFirst ==
    /\ (resolved # Absent /\ resolved.source = "openalex"
          /\ Get(openalex_data, "type", "") \in ExclusionTable)
       => resolved.paper_type = openalex_data["type"]
    /\ (resolved # Absent /\ resolved.source = "crossref"
          /\ Get(crossref_data["message"], "type", "") \in ExclusionTable)
       => resolved.paper_type = crossref_data["message"]["type"]

-----------------------------------------------------------------------------
(* C17 *)

\* how many terms of the list carry a code of the table
Count(terms, table) == Cardinality({ i \in 1..Len(terms) : terms[i].ui \in table })

\* the value and the confidence that the rule of the animal-use classifier
\* prescribes, stated over counts
AnimalRule(self, terms) ==
    LET animals == Count(terms, DOMAIN animal_mesh_uis)
        humans == Count(terms, {human_mesh_ui})
        first ==
            IF self.include_animals /\ animals > 0
            THEN [value |-> TRUE,
                  confidence |-> IF animals > 1 THEN "high" ELSE "medium"]
            ELSE IF self.include_humans /\ humans > 0 /\ animals = 0
            THEN [value |-> TRUE, confidence |-> "medium"]
            ELSE [value |-> FALSE, confidence |-> "low"]
    IN IF Count(terms, DOMAIN in_vitro_uis) > 0
       THEN [first EXCEPT !.confidence = "low"]
       ELSE first

\* C17: for every term list and configuration _classify_animals_used
\* returns the verdict of the rule: true with "high" for more than one
\* animal indicator and "medium" for one, when animals are enabled; else
\* true / "medium" for human terms without animal terms when humans are
\* included; else false / "low"; the confidence forced to "low" by an
\* in-vitro term while the evidence stays the list of matched labels.
\* [Animals, Mice] gives true / "medium", [Animals, In Vitro Techniques]
\* gives true / "low".
C17_AnimalsUsedFollowsRule ==
    animals_result # Absent =>
        LET self == animal_classifier
            rule == AnimalRule(self, mesh_terms)
            animal_labels == Labels(mesh_terms, DOMAIN animal_mesh_uis)
        IN /\ animals_result.value = rule.value
           /\ animals_result.confidence = rule.confidence
           /\ (self.include_animals /\ animal_labels # <<>>)
                 => animals_result.evidence = animal_labels
           /\ (self.include_animals /\ ~self.include_humans
                 /\ mesh_terms = <<Term("D000818", "Animals"), Term("D051379", "Mice")>>)
                 => animals_result.value /\ animals_result.confidence = "medium"
           /\ (self.include_animals /\ ~self.include_humans
                 /\ mesh_terms = <<Term("D000818", "Animals"),
                                   Term("D066298", "In Vitro Techniques")>>)
                 => animals_result.value /\ animals_result.confidence = "low"

\* The second example: one animal indicator next to an in-vitro term comes
\* back true / "low" with the animal label as its evidence.
C17_Witness ==
    /\ animals_result # Absent
    /\ animal_classifier.include_animals
    /\ mesh_terms = <<Term("D000818", "Animals"), Term("D066298", "In Vitro Techniques")>>
    /\ animals_result = Verdict(TRUE, "low", <<Label("Animals", "D000818")>>)

-----------------------------------------------------------------------------
(* C18 *)

\* C18: _classify_in_vivo follows its decision table.  Animal verdict false
\* gives false / "NOT FOUND" / ["No animals/subjects detected"]; else
\* in-vitro terms without in-vivo-supporting terms give false / "medium"
\* with the in-vitro labels; any in-vivo-supporting term gives true /
\* "high" with the in-vivo labels; neither gives true, "low" if the animal
\* confidence handed in was "low" and "medium" otherwise, with the fixed
\* assumption string.
C18_InVivoFollowsTable ==
    in_vivo_result # Absent =>
        LET animals_used == in_vivo_args[1]
            animals_confidence == in_vivo_args[2]
            in_vitro == HasTermIn(mesh_terms, DOMAIN in_vivo_in_vitro_uis)
            supporting == HasTermIn(mesh_terms, DOMAIN in_vivo_supporting_uis)
        IN IF ~animals_used
           THEN in_vivo_result =
                    Verdict(FALSE, "NOT FOUND", <<"No animals/subjects detected">>)
           ELSE IF in_vitro /\ ~supporting
           THEN in_vivo_result =
                    Verdict(FALSE, "medium", Labels(mesh_terms, DOMAIN in_vivo_in_vitro_uis))
           ELSE IF supporting
           THEN in_vivo_result =
                    Verdict(TRUE, "high", Labels(mesh_terms, DOMAIN in_vivo_supporting_uis))
           ELSE in_vivo_result =
                    Verdict(TRUE,
                            IF animals_confidence = "low" THEN "low" ELSE "medium",
                            <<"Assumption: animals present without strong in vitro indicators">>)

\* An in-vitro term next to an in-vivo-supporting term: the supporting term
\* wins and only its label is the evidence.
C18_Witness ==
    /\ in_vivo_result # Absent
    /\ in_vivo_args[1]
    /\ Len(mesh_terms) = 2
    /\ mesh_terms[1].ui = "D066298"
    /\ mesh_terms[2].ui = "D001522"
    /\ in_vivo_result =
          Verdict(TRUE, "high", <<Label("Behavioral Phenomena", "D001522")>>)

-----------------------------------------------------------------------------
(* C20 *)

\* the work-type as the source declared it, "" when the answer has none
RawType(work_data) == Get(work_data, "type", "")

\* neither the type-exclusion rule nor the title rule of the source applies
NoRuleOfOpenalex(work_data) ==
    /\ DeclaredType(work_data) \notin EXCLUDED_TYPES
    /\ Lower(Get(work_data, "type_crossref", "")) \notin EXCLUDED_CROSSREF_TYPES
    /\ ~ReviewRegexSearch(Get(work_data, "title", <<>>))

NoRuleOfCrossref(work_data) ==
    /\ DeclaredType(work_data) \notin ExclusionTable
    /\ \A k \in 1..Len(Get(work_data, "title", <<>>)) :
          ~ReviewRegexSearch(work_data["title"][k])

\* C20: when a source answers and neither its type-exclusion rule nor its
\* title rule applies, paper_type is the work-type exactly as the source
\* declared it, or "NOT FOUND" when the declared work-type is empty, for
\* the primary and for the fallback source alike.
C20_DeclaredTypeVerbatim ==
    resolved # Absent =>
        /\ (resolved.source = "openalex" /\ NoRuleOfOpenalex(openalex_data))
              => resolved.paper_type =
                    (IF RawType(openalex_data) = "" THEN "NOT FOUND"
                     ELSE RawType(openalex_data))
        /\ (resolved.source = "crossref" /\ NoRuleOfCrossref(crossref_data["message"]))
              => resolved.paper_type =
                    (IF RawType(crossref_data["message"]) = "" THEN "NOT FOUND"
                     ELSE RawType(crossref_data["message"]))

-----------------------------------------------------------------------------
(* C11 *)

\* the request of the source failed (make_api_request returned None) or
\* reading its answer raised
PrimaryFailed(data) == data = Absent \/ OpenalexRaises(data)

FallbackFailed(data) ==
    \/ data = Absent
    \/ ("message" \in DOMAIN data /\ CrossrefRaises(data["message"]))

\* C11: classify_paper_type always returns a result of one of the two
\* sources or the NOT FOUND result, never an error; when the request to
\* the primary source or the reading of its answer failed, the fallback
\* source is queried; when both failed the result is NOT FOUND / "none".
C11_FailureFallsThrough ==
    resolved # Absent =>
        /\ resolved.source \in {"openalex", "crossref", "none"}
        /\ PrimaryFailed(openalex_data) =>
              /\ crossref_data # NotCalled
              /\ requests = <<"openalex", "crossref">>
              /\ resolved.source # "openalex"
        /\ (PrimaryFailed(openalex_data) /\ FallbackFailed(crossref_data))
              => resolved = PaperType("NOT FOUND", "none", <<>>)

\* Reading the answer of the primary source raised (its type is null), the
\* fallback source was queried and its answer is the result.
C11_Witness ==
    /\ resolved # Absent
    /\ openalex_data # Absent
    /\ OpenalexRaises(openalex_data)
    /\ crossref_data # NotCalled
    /\ resolved.source = "crossref"
    /\ resolved.paper_type = "journal-article"

-----------------------------------------------------------------------------
(* The record of the DOI processed last *)

LastDoi == unique_dois[pos - 1]

LastRecord == AllResults[CHOOSE i \in 1..Len(AllResults) : AllResults[i].doi = LastDoi]

Processed == entry = "pipeline" /\ pos > 1

HasDefaultVerdicts(r) ==
    /\ ~r.animals_used
    /\ r.animals_confidence = "NOT FOUND"
    /\ ~r.in_vivo
    /\ r.in_vivo_confidence = "NOT FOUND"
    /\ r.species = <<>>

-----------------------------------------------------------------------------
(* C12 *)

\* an exception was raised while the last DOI was processed: in reading the
\* answer of a metadata source, or in fetching and parsing the terms
ExceptionRaised ==
    \/ answers["openalex"].called /\ answers["openalex"].data # Absent
          /\ OpenalexRaises(answers["openalex"].data)
    \/ answers["crossref"].called /\ FallbackFailed(answers["crossref"].data)
          /\ answers["crossref"].data # Absent
    \/ answers["efetch"].called /\ answers["efetch"].data.raised

\* C12: when an exception was raised at some stage of processing a DOI,
\* the record of that DOI has paper_type "NOT FOUND", classification_source
\* "error", the default verdicts and an error field.
C12_ExceptionGivesErrorRecord ==
    (Processed /\ ExceptionRaised) =>
        /\ LastRecord.paper_type = "NOT FOUND"
        /\ LastRecord.classification_source = "error"
        /\ HasDefaultVerdicts(LastRecord)
        /\ "processing_error" \in DOMAIN LastRecord

-----------------------------------------------------------------------------
(* C14 *)

\* the term list was resolved: efetch was called and its answer parsed
TermsResolved == answers["efetch"].called /\ ~answers["efetch"].data.raised

\* C14: the classifiers are run on the resolved term list exactly when
\* paper_type is not in the exclusion set: an excluded record carries the
\* default verdicts and costs no lookup, a record that is not excluded
\* carries what the three classifiers return for its term list, the empty
\* list included, and no error marker.
C14_ExclusionIsTheSoleGate ==
    Processed =>
        /\ IsExcludedType(LastRecord.paper_type) =>
              /\ HasDefaultVerdicts(LastRecord)
              /\ ~answers["idconv"].called /\ ~answers["efetch"].called
        /\ (~IsExcludedType(LastRecord.paper_type) /\ TermsResolved) =>
              LET classified ==
                      ClassifyTerms(animal_classifier, answers["efetch"].data.headings)
              IN /\ LastRecord.animals_used = classified.animals.value
                 /\ LastRecord.animals_confidence = classified.animals.confidence
                 /\ LastRecord.in_vivo = classified.in_vivo.value
                 /\ LastRecord.in_vivo_confidence = classified.in_vivo.confidence
                 /\ LastRecord.species = classified.species.species
                 /\ "animal_classification_error" \notin DOMAIN LastRecord

-----------------------------------------------------------------------------
(* C15 *)

IndexOf(seq, x) == CHOOSE i \in 1..Len(seq) : seq[i] = x

\* the identifier lookup ran for the last DOI and found nothing
PmidNotFound ==
    /\ answers["idconv"].called /\ answers["idconv"].data = NONE
    /\ answers["esearch"].called /\ answers["esearch"].data = NONE

\* C15: the identifier lookup asks the conversion endpoint first and the
\* search endpoint only when the conversion yielded no identifier; when
\* neither yields one, no terms are fetched, the record keeps the default
\* NOT FOUND verdicts, and the identifier-not-found counter has gone up by
\* one for each such DOI.
C15_LookupOrderAndSkip ==
    Processed =>
        /\ answers["esearch"].called <=>
              (answers["idconv"].called /\ answers["idconv"].data = NONE)
        /\ answers["esearch"].called =>
              IndexOf(requests, "idconv") < IndexOf(requests, "esearch")
        /\ answers["efetch"].called =>
              (answers["idconv"].called
                 /\ IndexOf(requests, "idconv") < IndexOf(requests, "efetch"))
        /\ PmidNotFound =>
              /\ ~answers["efetch"].called
              /\ HasDefaultVerdicts(LastRecord)
              /\ LastRecord.pmid = NONE
        /\ animal_classifier.stats.pmid_not_found =
              Cardinality({ i \in 1..Len(AllResults) :
                  Get(AllResults[i], "animal_classification_error", "") = "PMID not found" })

\* Two DOIs without an identifier: both endpoints asked for the second one
\* too, no terms fetched, and the counter at two.
C15_Witness ==
    /\ Processed
    /\ PmidNotFound
    /\ requests = <<"openalex", "idconv", "esearch">>
    /\ animal_classifier.stats.pmid_not_found = 2
    /\ LastRecord.animals_confidence = "NOT FOUND"

-----------------------------------------------------------------------------
(* C16 *)

FirstIndex(d) == CHOOSE i \in 1..Len(dois) : dois[i] = d /\ \A j \in 1..(i - 1) : dois[j] # d

\* how many different DOIs occur in the input before the first occurrence of d
Rank(d) == Cardinality({ e \in DoiSet : FirstIndex(e) < FirstIndex(d) })

InFirstSeenOrder(results) ==
    \A i, j \in 1..Len(results) :
        i < j => FirstIndex(results[i].doi) < FirstIndex(results[j].doi)

\* C16: the DOIs are processed without repetition in the order of their
\* first occurrences in the input: the deduplicated list holds every input
\* DOI once, ordered by first occurrence; at every moment the records are
\* those of the DOIs that occur first, one each, and at the end every DOI
\* of the input has its record.
C16_FirstSeenOrder ==
    entry = "pipeline" =>
        /\ { unique_dois[i] : i \in 1..Len(unique_dois) } = DoiSet
        /\ \A i, j \in 1..Len(unique_dois) :
              i < j => FirstIndex(unique_dois[i]) < FirstIndex(unique_dois[j])
        /\ \A d \in DoiSet :
              Cardinality(RecordsOf(d)) = (IF Rank(d) < Len(AllResults) THEN 1 ELSE 0)
        /\ \A i \in 1..Len(AllResults) : AllResults[i].doi \in DoiSet
        /\ InFirstSeenOrder(included_results)
        /\ InFirstSeenOrder(excluded_results)
        /\ Finished => Len(AllResults) = Cardinality(DoiSet)

\* The input B, a, B: B was processed first, and a is still to come.
C16_Witness ==
    /\ entry = "pipeline"
    /\ dois = <<"https://doi.org/10.1000/B", "10.1000/a", "https://doi.org/10.1000/B">>
    /\ pos = 2
    /\ Len(AllResults) = 1
    /\ AllResults[1].doi = "https://doi.org/10.1000/B"

-----------------------------------------------------------------------------
(* C13 *)

OnlyRateLimited == \A i \in 1..Len(responses) : responses[i] = HTTP_RATE_LIMITED

\* C13: a call of make_api_request sends a bounded number of requests, one
\* and retry_total retries; a call that got nothing but 429 answers returns
\* None after them; and every call returns, whatever the server answers.
C13_BoundedRetries ==
    /\ [](entry = "request" => Len(responses) <= retry_total + 1)
    /\ []((call_pc = "returned" /\ OnlyRateLimited) =>
             (call_result = Absent /\ Len(responses) = retry_total + 1))
    /\ (call_pc = "running" ~> call_pc = "returned")

\* Four 429 answers in a row, and the call has returned None.
C13_Witness ==
    /\ call_pc = "returned"
    /\ responses = <<HTTP_RATE_LIMITED, HTTP_RATE_LIMITED, HTTP_RATE_LIMITED,
                     HTTP_RATE_LIMITED>>
    /\ call_result = Absent

-----------------------------------------------------------------------------
(* C19 *)

ConfidenceRank(confidence) ==
    CASE confidence = "high" -> 3
      [] confidence = "medium" -> 2
      [] confidence = "low" -> 1
      [] OTHER -> 0

-----------------------------------------------------------------------------
(* C21 *)

RowProcessed == entry = "row" /\ pos > 1

\* the string does not have the DOI format, not even once normalized
Malformed(doi) == ~validate_doi(normalize_doi(doi))

\* C21: for a malformed DOI string handed to the pipeline no request is
\* issued to any remote service.
C21_MalformedDoiNoRequest ==
    (RowProcessed /\ Malformed(dois[1])) => requests = <<>>

-----------------------------------------------------------------------------
(* C22 *)

\* two requests in a row on the session are sent less than rate_limit apart
SentTooSoon ==
    \E i \in 1..(Len(sent_at) - 1) : sent_at[i + 1] - sent_at[i] < rate_limit

\* C22: two requests in a row on one session are never sent less than the
\* session's minimum interval apart, the fetch of the MeSH terms included.
C22_MinimumIntervalKept == entry = "pace" => ~SentTooSoon

-----------------------------------------------------------------------------
(* C23 *)

\* the steps of classify_animal_studies in the order of the claim
ClassificationSteps ==
    <<"_doi_to_pmid", "_pmid_to_mesh", "_classify_animals_used",
      "_classify_in_vivo", "_extract_species">>

IsPrefix(s, t) == Len(s) <= Len(t) /\ \A i \in 1..Len(s) : s[i] = t[i]

Occurrences(seq, x) == Cardinality({ i \in 1..Len(seq) : seq[i] = x })

\* C23: for every DOI the paper-type resolver is called first and once; for
\* an excluded paper type nothing else is called and no identifier lookup and
\* no term fetch is requested; otherwise identifier lookup, term fetch, animal
\* use, in-vivo and species follow in that order, each at most once; and
\* every DOI handled so far has its record in a bucket before the next starts.
C23_CallOrderPerDoi ==
    Processed =>
        /\ calls[1] = "classify_paper_type"
        /\ Occurrences(calls, "classify_paper_type") = 1
        /\ requests[1] = "openalex"
        /\ Occurrences(requests, "openalex") = 1
        /\ IF IsExcludedType(LastRecord.paper_type)
           THEN /\ calls = <<"classify_paper_type">>
                /\ \A e \in {"idconv", "esearch", "efetch"} : ~Contains(requests, e)
           ELSE /\ calls[2] = "classify_single_paper"
                /\ IsPrefix(Tail(Tail(calls)), ClassificationSteps)
                /\ Contains(calls, "_doi_to_pmid") <=> Contains(requests, "idconv")
                /\ Contains(calls, "_pmid_to_mesh") <=> Contains(requests, "efetch")
                /\ \A e \in {"idconv", "esearch", "efetch"} : Occurrences(requests, e) <= 1
        /\ Len(AllResults) = pos - 1
        /\ LastRecord \in
              (IF IsExcludedType(LastRecord.paper_type)
               THEN { excluded_results[i] : i \in DOMAIN excluded_results }
               ELSE { included_results[i] : i \in DOMAIN included_results })

\* A second DOI has gone through all five steps after its paper type was
\* resolved, and the first one was of an excluded type.
C23_Witness ==
    /\ entry = "pipeline"
    /\ pos = 3
    /\ Len(excluded_results) = 1
    /\ Len(included_results) = 1
    /\ LastRecord = included_results[1]
    /\ calls = <<"classify_paper_type", "classify_single_paper">> \o ClassificationSteps

-----------------------------------------------------------------------------
(* C24 *)

\* C24: the primary source is queried first and the fallback source only
\* after it; and whenever the primary source returned data, whatever its
\* type, the fallback source is not queried and the result is the primary's.
C24_FallbackOnlyWithoutPrimaryData ==
    resolved # Absent =>
        /\ requests[1] = "openalex"
        /\ Contains(requests, "crossref") =>
              (requests = <<"openalex", "crossref">> /\ crossref_data # NotCalled)
        /\ openalex_data = Absent => crossref_data # NotCalled
        /\ openalex_data # Absent =>
              (crossref_data = NotCalled /\ resolved.source = "openalex")

-----------------------------------------------------------------------------
(* C25 *)

Counters == DOMAIN ZeroStats

\* the DOIs that ended in one of the four outcomes of classify_animal_studies
Outcomes(stats) ==
    stats.processed + stats.pmid_not_found + stats.mesh_not_found + stats.api_errors

CountersOrdered ==
    LET stats == animal_classifier.stats
    IN /\ stats.in_vivo_found <= stats.animals_found
       /\ stats.animals_found <= stats.processed
       /\ stats.species_found <= stats.processed
       /\ entry = "pipeline" => Outcomes(stats) <= pos - 1

CountersGrow ==
    /\ \A c \in Counters : animal_classifier'.stats[c] >= animal_classifier.stats[c]
    /\ Outcomes(animal_classifier'.stats) <= Outcomes(animal_classifier.stats) + 1

\* C25: the counters of an AnimalClassifier always satisfy in_vivo_found <=
\* animals_found <= processed and species_found <= processed, the four outcome
\* counters together never exceed the number of DOIs handled, no counter ever
\* decreases, and one DOI adds at most one to the outcome counters.
C25_CountersConsistent == [](CountersOrdered) /\ [][CountersGrow]_vars

\* Two DOIs were handled: one paper was classified as an in-vivo animal
\* study with a species, for the other no PMID was found.
C25_Witness ==
    /\ entry = "pipeline"
    /\ pos = 3
    /\ animal_classifier.stats.processed = 1
    /\ animal_classifier.stats.animals_found = 1
    /\ animal_classifier.stats.in_vivo_found = 1
    /\ animal_classifier.stats.species_found = 1
    /\ animal_classifier.stats.pmid_not_found = 1

-----------------------------------------------------------------------------
(* C26 *)

\* the record reports something found in the MeSH terms of the paper
ReportsFindings(r) ==
    \/ r.animals_used
    \/ r.species # <<>>
    \/ r.animal_evidence # <<>>
    \/ r.in_vivo_evidence # <<>>
    \/ r.species_evidence # <<>>

ConsistentRecord(r) ==
    /\ ReportsFindings(r) =>
          /\ r.pmid # NONE
          /\ r.mesh_count >= 1
          /\ ~IsExcludedType(r.paper_type)
    /\ r.in_vivo_confidence = "NOT FOUND" <=> ~r.animals_used

\* C26: in every record of the pipeline, animals_used, a species or an
\* evidence entry implies a PMID, at least one MeSH term and a paper type that
\* is not excluded; and in_vivo_confidence is "NOT FOUND" exactly when
\* animals_used is false.
C26_RecordFieldsConsistent ==
    entry = "pipeline" =>
        \A i \in 1..Len(AllResults) : ConsistentRecord(AllResults[i])

\* One record reports an in-vivo animal study with its species, another one
\* of the same run is of an excluded type and reports nothing.
C26_Witness ==
    /\ entry = "pipeline"
    /\ \E i \in 1..Len(included_results) :
          /\ included_results[i].animals_used
          /\ included_results[i].in_vivo_confidence # "NOT FOUND"
          /\ included_results[i].species # <<>>
          /\ included_results[i].mesh_count >= 1
    /\ \E i \in 1..Len(excluded_results) : ~ReportsFindings(excluded_results[i])

====
